---- MODULE Spec2Model ----
(***************************************************************************)
(* Model of the "Veille LLM" pipeline: run_full_pipeline (main.py), the    *)
(* Gemini client's retry loop and JSON repair (services/gemini_service.py),*)
(* the four agents (agents/*.py), the pydantic models (models.py) and the  *)
(* execution history file (utils.py).                                      *)
(*                                                                         *)
(* The program runs on one asyncio event loop: code between two awaits is  *)
(* atomic, so every action below is the code from the return of one await  *)
(* to the next await (or to the end of the coroutine).                     *)
(*                                                                         *)
(* The file system is taken to be reliable: open/json.load/json.dump on    *)
(* execution_history.json succeed, so the except branches of utils.py      *)
(* lines 127-128 and 151-153 are not taken.                                *)
(***************************************************************************)
EXTENDS Integers, Sequences, FiniteSets, TLC

VARIABLES
    pipeline_running,  \* main.py:46   the global single-flight flag
    history,           \* utils.py:16  content of execution_history.json
    next_id,           \* main.py:67   uuid4() modelled as a fresh counter
    alive,             \* the process (event loop) is serving
    pc,                \* per invocation: the await it is suspended at
    execution,         \* per invocation: the local PipelineExecution
    data,              \* per invocation: raw_articles, agent1_output, ... so far
    gem,               \* per invocation: call_gemini's loop state
    steps,             \* observer: steps started since the last accepted run began
    input,             \* observer: the argument the last started step was given
    sent,              \* observer: messages handed to Telegram since then
    outcome,           \* observer: how the last invocation that ended, ended
    calls,             \* observer: the backend calls of the step in progress (or
                       \* of the step the run ended in): how many, and the last outcome
    g_max, g_fmt, g_attempt, g_last_error, g_state, g_text, g_error,
                       \* one isolated call_gemini (SpecGemini)
    g_trace, g_waited, \* observers of that call: backend outcomes, seconds slept
    h_file, h_saved, h_read, \* the history file alone (SpecHistory)
    x_text, x_pc, x_once, x_twice, x_checked,
                       \* one text put through the JSON repair (SpecExtract)
    s_max, s_stage, s_attempt, s_pc,
                       \* the four agents of one run in turn (SpecStages)
    s_made, s_kinds    \* observers: backend calls made by each agent so far, and
                       \* the kinds of failure the agent in progress has met

vars == <<pipeline_running, history, next_id, alive, pc, execution, data, gem,
          steps, input, sent, outcome, calls>>
gvars == <<g_max, g_fmt, g_attempt, g_last_error, g_state, g_text, g_error,
           g_trace, g_waited>>
hvars == <<h_file, h_saved, h_read>>
xvars == <<x_text, x_pc, x_once, x_twice, x_checked>>
svars == <<s_max, s_stage, s_attempt, s_pc, s_made, s_kinds>>
allvars == <<vars, gvars, hvars, xvars, svars>>

(***************************************************************************)
(* Bounds of the model and constants of the program                        *)
(***************************************************************************)
MaxRuns == 2            \* accepted runs explored by Spec
MaxLiveRuns == 1        \* accepted runs explored by SpecLive
MaxRetriesArg == 4      \* largest max_retries argument explored by SpecGemini
ExtraSaves == 3         \* saves beyond the history limit explored by SpecHistory
MaxTextLen == 6         \* longest text (in tokens) explored by SpecExtract

MAX_RETRIES == 3        \* config.py:42
HISTORY_LIMIT == 50     \* utils.py:119  history[-50:]
MAX_LIMIT == 50         \* main.py:292   limit > 50 is refused

Callers == {"manual", "scheduled"}   \* POST /trigger, the APScheduler job

(***************************************************************************)
(* Texts.  A text is a sequence of tokens: the fence (three backticks), the *)
(* tag json, a whitespace character, a junk character, a double quote, or  *)
(* a whole JSON document (an object).                                      *)
(***************************************************************************)
Fence == "FENCE"      \* three backticks
Tag == "json"
Ws == " "
Junk == "x"
Quote == "QUOTE"      \* the double quote that delimits a JSON string

\* The JSON documents the backend may answer with, by stage.
DocTokens ==
    {"D1", "D1bad", "D1cat", "D2", "D2bad", "D2low", "D3", "D3bad", "D3score",
     "D3four", "D4", "D4bad", "D4perm"}

Tokens == {Fence, Tag, Ws, Junk, Quote} \cup DocTokens

RECURSIVE LStrip(_)
LStrip(t) == IF t # <<>> /\ Head(t) = Ws THEN LStrip(Tail(t)) ELSE t

RECURSIVE RStrip(_)
RStrip(t) ==
    IF t # <<>> /\ t[Len(t)] = Ws THEN RStrip(SubSeq(t, 1, Len(t) - 1)) ELSE t

\* str.strip()
Strip(t) == RStrip(LStrip(t))

\* The characters a JSON string holds here (a space is allowed unescaped).
StringChars == {Fence, Tag, Ws, Junk}

\* A JSON string: a top-level value json.loads accepts.
IsJsonString(s) ==
    /\ Len(s) >= 2
    /\ s[1] = Quote
    /\ s[Len(s)] = Quote
    /\ \A i \in 2..(Len(s) - 1) : s[i] \in StringChars

\* json.loads(text) does not raise: whitespace around one JSON value, which is a
\* document or a string.
IsValidJson(t) ==
    \/ Len(Strip(t)) = 1 /\ Strip(t)[1] \in DocTokens
    \/ IsJsonString(Strip(t))

\* Positions of the fences of a text.
FencePos(t) == {i \in 1..Len(t) : t[i] = Fence}

Min(S) == CHOOSE m \in S : \A n \in S : m <= n

Max(S) == CHOOSE m \in S : \A n \in S : m >= n

\* Mutant: the group is greedy, (.*) for (.*?), and runs to the last fence.
extract_json_greedy(t) ==
    IF Cardinality(FencePos(t)) >= 2
    THEN LET open == Min(FencePos(t))
             close == Max(FencePos(t))
             body == SubSeq(t, open + 1, close - 1)
             untagged == IF body # <<>> /\ Head(body) = Tag THEN Tail(body) ELSE body
         IN Strip(untagged)
    ELSE Strip(t)

\* Mutant: the pattern lacks the optional tag, (?:json)?
extract_json_keeps_tag(t) ==
    IF Cardinality(FencePos(t)) >= 2
    THEN LET open == Min(FencePos(t))
             close == Min(FencePos(t) \ {open})
         IN Strip(SubSeq(t, open + 1, close - 1))
    ELSE Strip(t)

\* _extract_json_from_markdown: the regex FENCE(?:json)?\s*(.*?)FENCE matches from
\* the first fence to the next one; group 1 starts after the optional tag and the
\* whitespace that follows; matches[0].strip(), or text.strip() without a match.
extract_json_from_markdown(t) ==
    IF Cardinality(FencePos(t)) >= 2
    THEN LET open == Min(FencePos(t))
             close == Min(FencePos(t) \ {open})
             body == SubSeq(t, open + 1, close - 1)
             untagged == IF body # <<>> /\ Head(body) = Tag THEN Tail(body) ELSE body
         IN Strip(untagged)
    ELSE Strip(t)

(***************************************************************************)
(* Errors: str(e) of the exceptions the pipeline can record.               *)
(***************************************************************************)
Err(kind, n, detail) == [kind |-> kind, n |-> n, detail |-> detail]
NoError == Err("None", 0, "")
BusyError == Err("Pipeline is already running", 0, "")

BackendErrors == {"timeout", "quota"}     \* exceptions of generate_content
ParseRetryError == "Failed to parse JSON response"   \* gemini_service.py:104

(***************************************************************************)
(* JSON documents and the pydantic models (models.py)                      *)
(***************************************************************************)
Ranked(scores) == [i \in 1..Len(scores) |-> [rank |-> i, impact_score |-> scores[i]]]

\* json.loads of a document token: the parsed value.
DocValue(tok) ==
    CASE tok = "D1" ->
           [articles |-> <<[category |-> "trend", technical_relevance_score |-> 7]>>]
      [] tok = "D1bad" ->
           [articles |-> <<[category |-> "trend", technical_relevance_score |-> 11]>>]
      [] tok = "D1cat" ->
           [articles |-> <<[category |-> "other", technical_relevance_score |-> 7]>>]
      [] tok = "D2" ->
           [ideas |-> <<[impact_score |-> 8, technical_difficulty |-> 5],
                        [impact_score |-> 6, technical_difficulty |-> 2]>>,
            total_extracted |-> 5]
      [] tok = "D2bad" ->
           [ideas |-> <<[impact_score |-> 11, technical_difficulty |-> 5]>>,
            total_extracted |-> 1]
      [] tok = "D2low" ->
           [ideas |-> <<[impact_score |-> 8, technical_difficulty |-> 0 - 1]>>,
            total_extracted |-> 1]
      [] tok = "D3" -> [top_5_ideas |-> Ranked(<<9, 8, 8, 7, 6>>)]
      [] tok = "D3score" ->
           [top_5_ideas |-> <<[rank |-> 1, impact_score |-> 12]>>]
      [] tok = "D3four" -> [top_5_ideas |-> Ranked(<<9, 8, 8, 7>>)]
      [] tok = "D3bad" ->
           [top_5_ideas |-> <<[rank |-> 6, impact_score |-> 9]>>]
      [] tok = "D4" -> [top_5_explained |-> [i \in 1..5 |-> [rank |-> i]]]
      [] tok = "D4bad" -> [top_5_explained |-> <<[rank |-> 0]>>]
      [] tok = "D4perm" ->
           [top_5_explained |-> <<[rank |-> 2], [rank |-> 1], [rank |-> 1],
                                  [rank |-> 4], [rank |-> 5]>>]

\* The documents the backend answers a stage's prompt with.
StageDocs(stage) ==
    CASE stage = 1 -> {"D1", "D1bad", "D1cat"}
      [] stage = 2 -> {"D2", "D2bad", "D2low"}
      [] stage = 3 -> {"D3", "D3bad", "D3score", "D3four"}
      [] stage = 4 -> {"D4", "D4bad", "D4perm"}

json_loads(t) == DocValue(Strip(t)[1])

\* Mutant: the upper bound le=10 is missing.
ScoreWithoutUpperBound(v) == v >= 0

Score(v) == v \in 0..10         \* Field(..., ge=0, le=10)
Rank(v) == v \in 1..5           \* Field(..., ge=1, le=5)

\* Article: category is a plain str, technical_relevance_score is a Score.
Article(a) == Score(a.technical_relevance_score)
Idea(i) == Score(i.impact_score) /\ Score(i.technical_difficulty)
TopIdea(i) == Rank(i.rank) /\ Score(i.impact_score)
ExplainedIdea(i) == Rank(i.rank)

All(P(_), s) == \A k \in 1..Len(s) : P(s[k])

\* AgentNOutput(**response_data) does not raise ValidationError.
Validates(stage, v) ==
    CASE stage = 1 -> All(Article, v.articles)
      [] stage = 2 -> All(Idea, v.ideas)
      [] stage = 3 -> All(TopIdea, v.top_5_ideas)
      [] stage = 4 -> All(ExplainedIdea, v.top_5_explained)

(***************************************************************************)
(* GeminiClient.call_gemini: one iteration of the retry loop               *)
(***************************************************************************)
\* What generate_content can do: raise, or answer with a text.
BackendRaises(e) == [ok |-> FALSE, text |-> <<>>, err |-> e]
BackendAnswers(t) == [ok |-> TRUE, text |-> t, err |-> ""]

\* Observer of the backend calls of one call_gemini.
NoCalls == [made |-> 0, last |-> BackendRaises("")]
Called(log, o) == [made |-> log.made + 1, last |-> o]

Returns(t) == [kind |-> "return", text |-> t, error |-> "", wait |-> 0]
Raises(e) == [kind |-> "raise", text |-> <<>>, error |-> e, wait |-> 0]

\* Mutant: the received text is returned without any check.
ValidateJsonResponseSkipped(attempt, max_retries, text) == Returns(text)

\* Mutant: the text is extracted without json.loads being tried on it first.
ValidateJsonResponseExtractsFirst(attempt, max_retries, text) ==
    LET extracted == extract_json_from_markdown(text)
    IN IF IsValidJson(extracted)
       THEN Returns(extracted)
       ELSE IF attempt < max_retries - 1
            THEN Raises(ParseRetryError)
            ELSE Returns(extracted)

\* Lines 85-106: the JSON check of a received text.  A text that is still not
\* JSON after the extraction raises unless this is the last attempt.
ValidateJsonResponse(attempt, max_retries, text) ==
    IF IsValidJson(text)
    THEN Returns(text)
    ELSE LET extracted == extract_json_from_markdown(text)
         IN IF IsValidJson(extracted)
            THEN Returns(extracted)
            ELSE IF attempt < max_retries - 1
                 THEN Raises(ParseRetryError)
                 ELSE Returns(extracted)

\* Mutant: a fixed delay of one second.
BackoffFixed(attempt) == 1

\* Line 114: wait_time = 2 ** attempt
Backoff(attempt) == 2 ^ attempt

\* Mutant: the loop goes round once more than max_retries allows.
GeminiAttemptOneMore(attempt, max_retries, response_format, backend) ==
    LET tried == IF ~backend.ok
                 THEN Raises(backend.err)
                 ELSE IF response_format = "json"
                      THEN ValidateJsonResponse(attempt, max_retries, backend.text)
                      ELSE Returns(backend.text)
    IN IF tried.kind = "return"
       THEN tried
       ELSE IF attempt < max_retries
            THEN [kind |-> "retry", text |-> <<>>, error |-> tried.error,
                  wait |-> Backoff(attempt)]
            ELSE [kind |-> "exhausted", text |-> <<>>, error |-> tried.error,
                  wait |-> 0]

\* Lines 54-116: the body of "for attempt in range(max_retries)" for one backend
\* outcome: return the text, or record last_error and either sleep 2 ** attempt
\* and go round again ("retry") or fall out of the loop ("exhausted").
GeminiAttempt(attempt, max_retries, response_format, backend) ==
    LET tried == IF ~backend.ok
                 THEN Raises(backend.err)
                 ELSE IF response_format = "json"
                      THEN ValidateJsonResponse(attempt, max_retries, backend.text)
                      ELSE Returns(backend.text)
    IN IF tried.kind = "return"
       THEN tried
       ELSE IF attempt < max_retries - 1
            THEN [kind |-> "retry", text |-> <<>>, error |-> tried.error,
                  wait |-> Backoff(attempt)]
            ELSE [kind |-> "exhausted", text |-> <<>>, error |-> tried.error,
                  wait |-> 0]

\* Mutant: the final exception does not carry the last error.
GeminiFailedWithoutCause(max_retries, last_error) ==
    Err("Gemini API call failed after attempts", max_retries, "")

\* Line 120: the exception raised when the loop is exhausted.
GeminiFailed(max_retries, last_error) ==
    Err("Gemini API call failed after attempts", max_retries, last_error)

(***************************************************************************)
(* The agents: json.loads and the pydantic model after call_gemini returns *)
(***************************************************************************)
InvalidJsonError(stage) ==
    Err("Agent failed: Invalid JSON response from Gemini", stage, "")
ValidationError(stage) == Err("ValidationError", stage, "out of range")
\* AgentNOutput(**response_data) with a str: "argument after ** must be a mapping"
NotAMappingError(stage) == Err("TypeError", stage, "not a mapping")

\* Mutant: the JSONDecodeError is raised again as it is.
AgentResultReraises(stage, text) ==
    IF ~IsValidJson(text)
    THEN [ok |-> FALSE, out |-> <<>>, err |-> Err("JSONDecodeError", stage, "")]
    ELSE IF IsJsonString(Strip(text))
    THEN [ok |-> FALSE, out |-> <<>>, err |-> NotAMappingError(stage)]
    ELSE IF Validates(stage, json_loads(text))
         THEN [ok |-> TRUE, out |-> <<json_loads(text)>>, err |-> NoError]
         ELSE [ok |-> FALSE, out |-> <<>>, err |-> ValidationError(stage)]

\* analyze_news, extract_ideas, validate_and_reflect, translate_to_darija, from
\* the text call_gemini returned: the typed output, or the exception raised.
AgentResult(stage, text) ==
    IF ~IsValidJson(text)
    THEN [ok |-> FALSE, out |-> <<>>, err |-> InvalidJsonError(stage)]
    ELSE IF IsJsonString(Strip(text))
    THEN [ok |-> FALSE, out |-> <<>>, err |-> NotAMappingError(stage)]
    ELSE IF Validates(stage, json_loads(text))
         THEN [ok |-> TRUE, out |-> <<json_loads(text)>>, err |-> NoError]
         ELSE [ok |-> FALSE, out |-> <<>>, err |-> ValidationError(stage)]

\* format_telegram_message: one block per idea, in the order of the list.
format_telegram_message(agent4_output) ==
    [kind |-> "top 5",
     ranks |-> [i \in 1..Len(agent4_output.top_5_explained) |->
                  agent4_output.top_5_explained[i].rank],
     error |-> NoError]

\* main.py:184-189: the error notification carries str(e).
ErrorNotice(e) == [kind |-> "error", ranks |-> <<>>, error |-> e]

\* TelegramService.send_message: what happens to the request, and the boolean
\* returned (lines 36-61): True for a 200 only.
SendOutcomes == {"200", "non-200", "exception", "no credentials"}
send_message(o) == o = "200"

(***************************************************************************)
(* The execution history file (utils.py)                                   *)
(***************************************************************************)
\* Python's s[-n:] for n >= 0.
Suffix(s, n) ==
    IF n = 0 \/ n >= Len(s) THEN s ELSE SubSeq(s, Len(s) - n + 1, Len(s))

\* Python's s[::-1]
Reverse(s) == [i \in 1..Len(s) |-> s[Len(s) + 1 - i]]

\* Mutant: the oldest entries are kept instead of the newest.
save_execution_history_keeps_oldest(file, exec) ==
    SubSeq(Append(file, exec), 1,
           IF Len(file) + 1 < HISTORY_LIMIT THEN Len(file) + 1 ELSE HISTORY_LIMIT)

\* save_execution_history: append, keep the last 50, write back.
save_execution_history(file, exec) == Suffix(Append(file, exec), HISTORY_LIMIT)

\* load_execution_history(limit)
load_execution_history(file, limit) == Reverse(Suffix(file, limit))

\* GET /history: the limit is checked, then the file is read.
get_execution_history(file, limit) ==
    IF limit < 1 \/ limit > MAX_LIMIT
    THEN [code |-> 400, executions |-> <<>>]
    ELSE [code |-> 200, executions |-> load_execution_history(file, limit)]

(***************************************************************************)
(* PipelineExecution (models.py:94-103)                                    *)
(***************************************************************************)
NewExecution(id) ==
    [execution_id |-> id, completed_at |-> "None", status |-> "running",
     error_message |-> NoError, articles_fetched |-> 0, ideas_extracted |-> 0,
     telegram_sent |-> FALSE]

NoExecution == [NewExecution(0) EXCEPT !.status = "none"]

Now == "now"      \* get_current_timestamp()


(***************************************************************************)
(* run_full_pipeline (main.py:50-201)                                      *)
(***************************************************************************)
\* How an invocation of run_full_pipeline ended, as its caller sees it.
Pending == [caller |-> "", kind |-> "none", execution |-> NoExecution, error |-> NoError]
Returned(c, exec) ==
    [caller |-> c, kind |-> "returned", execution |-> exec, error |-> NoError]
Raised(c, e) ==
    [caller |-> c, kind |-> "raised", execution |-> NoExecution, error |-> e]
Cancelled(c) ==
    [caller |-> c, kind |-> "cancelled", execution |-> NoExecution, error |-> NoError]

NoCall == [stage |-> 0, attempt |-> 0, last_error |-> ""]
NewCall(stage) == [stage |-> stage, attempt |-> 0, last_error |-> ""]

\* The steps in the order of main.py:79-155.
StepOrder == <<"fetch", "agent_1", "agent_2", "agent_3", "agent_4", "deliver">>

Started(log, name) ==
    Append(log, [step |-> name, state |-> "pending", error |-> NoError])
Ended(log, how, e) == [log EXCEPT ![Len(log)].state = how, ![Len(log)].error = e]

Handed(log, message) == Append(log, [message |-> message, result |-> "pending"])
Answered(log, how) == [log EXCEPT ![Len(log)].result = how]

\* Mutant: the busy test is missing.
IsBusyNever(flag) == FALSE

\* Line 63: the single-flight test.
IsBusy(flag) == flag

\* Mutant: the flag is not set when a run is accepted.
FlagOfAcceptedRunNotSet == FALSE

\* Line 75: pipeline_running = True
FlagOfAcceptedRun == TRUE

\* Mutant: every step is handed raw_articles.
ArgumentAlwaysFirst(outputs, k) == outputs[1]

\* Lines 90, 107, 125, 140, 153: step k + 1 is called with the output of step k
\* (raw_articles, agent1_output, ..., agent4_output).
Argument(outputs, k) == outputs[k]

\* Mutant: the cleanup sits at the end of the try body, so a failed run skips it.
FinallyOnlyOnSuccess(c, exec) ==
    IF exec.status = "failed"
    THEN UNCHANGED <<pipeline_running, history>>
    ELSE /\ pipeline_running' = FALSE
         /\ history' = save_execution_history(history, exec)

\* Mutant: the record is saved but the flag is left as it is.
FinallyKeepsFlag(c, exec) ==
    /\ UNCHANGED pipeline_running
    /\ history' = save_execution_history(history, exec)

\* Lines 196-199: the finally block.
Finally(c, exec) ==
    /\ pipeline_running' = FALSE
    /\ history' = save_execution_history(history, exec)

\* The coroutine ends (return of line 201, or an exception leaves it).
Exit(c, how) ==
    /\ pc' = [pc EXCEPT ![c] = "idle"]
    /\ execution' = [execution EXCEPT ![c] = NoExecution]
    /\ gem' = [gem EXCEPT ![c] = NoCall]
    /\ data' = [data EXCEPT ![c] = <<>>]
    /\ outcome' = how

\* Mutant: the error message is not recorded.
FailedExecutionNoMessage(exec, e) ==
    [exec EXCEPT !.status = "failed", !.completed_at = Now]

\* Mutant: the failed record is built anew and loses the counters.
FailedExecutionResetsCounters(exec, e) ==
    [exec EXCEPT !.status = "failed", !.error_message = e, !.completed_at = Now,
                 !.articles_fetched = 0, !.ideas_extracted = 0]

\* Mutant: the status is not set to failed.
FailedExecutionStatusNotSet(exec, e) ==
    [exec EXCEPT !.error_message = e, !.completed_at = Now]

\* Lines 172-174: the record of a failed run.
FailedExecution(exec, e) ==
    [exec EXCEPT !.status = "failed", !.error_message = e, !.completed_at = Now]

\* Mutant: a failed notification overwrites the recorded error.
AfterNoticeOverrides(exec, success) ==
    IF success THEN exec
    ELSE [exec EXCEPT !.error_message = Err("notification failed", 0, "")]

\* Lines 190-192: the result of the error notification is dropped.
AfterNotice(exec, success) == exec

\* Mutant: the failed record is returned and nothing is raised.
FailureExitReturns(c, exec) == Returned(c, exec)

\* Line 194: raise
FailureExit(c, exec) == Raised(c, exec.error_message)

\* Lines 171-190: the except block up to the await of the error notification.
\* (The observer calls is set by the action that uses this.)
Fail(c, e) ==
    /\ execution' = [execution EXCEPT ![c] = FailedExecution(@, e)]
    /\ steps' = Ended(steps, "raised", e)
    /\ sent' = Handed(sent, ErrorNotice(e))
    /\ pc' = [pc EXCEPT ![c] = "notify"]
    /\ gem' = [gem EXCEPT ![c] = NoCall]
    /\ UNCHANGED <<pipeline_running, history, next_id, alive, data, input, outcome>>

\* Lines 60-81: the busy test, the new PipelineExecution, the flag, up to the
\* await of fetch_latest_news.
Invoke(c) ==
    /\ alive
    /\ pc[c] = "idle"
    /\ IF IsBusy(pipeline_running)
       THEN /\ outcome' = Raised(c, BusyError)
            /\ UNCHANGED <<pipeline_running, history, next_id, alive, pc, execution,
                           data, gem, steps, input, sent, calls>>
       ELSE /\ next_id <= MaxRuns
            /\ execution' = [execution EXCEPT ![c] = NewExecution(next_id)]
            /\ next_id' = next_id + 1
            /\ pipeline_running' = FlagOfAcceptedRun
            /\ pc' = [pc EXCEPT ![c] = "fetch"]
            /\ steps' = Started(<<>>, "fetch")
            /\ input' = <<>>
            /\ sent' = <<>>
            /\ outcome' = Pending
            /\ calls' = NoCalls
            /\ data' = [data EXCEPT ![c] = <<>>]
            /\ gem' = [gem EXCEPT ![c] = NoCall]
            /\ UNCHANGED <<history, alive>>

\* fetch_latest_news: a list of raw articles, or an httpx error.
FetchResults == {<<"a1", "a2", "a3">>}
FetchError == Err("HTTPStatusError", 0, "")

\* A step returned `out`: the next step is called with it and runs up to its await.
NextStep(c, k, out) ==
    LET outputs == Append(data[c], out)
        arg == Argument(outputs, k)
    IN /\ data' = [data EXCEPT ![c] = outputs]
       /\ input' = <<arg>>
       /\ calls' = NoCalls
       /\ steps' = Started(Ended(steps, "returned", NoError), StepOrder[k + 1])
       /\ IF k < 5
          THEN /\ gem' = [gem EXCEPT ![c] = NewCall(k)]
               /\ pc' = [pc EXCEPT ![c] = "backend"]
               /\ sent' = sent
          ELSE /\ gem' = [gem EXCEPT ![c] = NoCall]
               /\ pc' = [pc EXCEPT ![c] = "send"]
               /\ sent' = Handed(sent, format_telegram_message(arg))
       /\ UNCHANGED <<pipeline_running, history, next_id, alive, outcome>>

\* Lines 81-90: fetch_latest_news returns or raises; then analyze_news runs up to
\* its backend call.
FetchReturns(c) ==
    /\ alive
    /\ pc[c] = "fetch"
    /\ \E ok \in BOOLEAN :
         IF ok
         THEN \E raw_articles \in FetchResults :
                /\ execution' = [execution EXCEPT
                                   ![c].articles_fetched = Len(raw_articles)]
                /\ NextStep(c, 1, raw_articles)
         ELSE Fail(c, FetchError) /\ UNCHANGED calls

ValidDoc(stage) ==
    CASE stage = 1 -> "D1" [] stage = 2 -> "D2" [] stage = 3 -> "D3" [] stage = 4 -> "D4"

\* The texts the backend answers a stage's prompt with: a document, the valid
\* document in a tagged fence, or junk.
BackendTexts(stage) ==
    {<<d>> : d \in StageDocs(stage)}
      \cup {<<Fence, Tag, Ws, ValidDoc(stage), Ws, Fence>>}
      \cup {<<Junk>>}

\* generate_content raises in the orchestrated runs.
PipelineBackendErrors == {"timeout"}

BackendOutcomes(stage) ==
    {BackendRaises(e) : e \in PipelineBackendErrors}
      \cup {BackendAnswers(t) : t \in BackendTexts(stage)}

\* generate_content returns or raises inside call_gemini; the loop iteration, the
\* agent's parse and validation, and the orchestrator run on to the next await.
BackendReturns(c) ==
    /\ alive
    /\ pc[c] = "backend"
    /\ \E o \in BackendOutcomes(gem[c].stage) :
         LET stage == gem[c].stage
             it == GeminiAttempt(gem[c].attempt, MAX_RETRIES, "json", o)
             agent == AgentResult(stage, it.text)
         IN CASE it.kind = "retry" ->
                   /\ gem' = [gem EXCEPT ![c].last_error = it.error]
                   /\ pc' = [pc EXCEPT ![c] = "sleep"]
                   /\ calls' = Called(calls, o)
                   /\ UNCHANGED <<pipeline_running, history, next_id, alive,
                                  execution, data, steps, input, sent, outcome>>
              [] it.kind = "exhausted" ->
                   /\ Fail(c, GeminiFailed(MAX_RETRIES, it.error))
                   /\ calls' = Called(calls, o)
              [] it.kind = "return" /\ agent.ok ->
                   /\ execution' = [execution EXCEPT ![c].ideas_extracted =
                                      IF stage = 2 THEN Len(agent.out[1].ideas) ELSE @]
                   /\ NextStep(c, stage + 1, agent.out[1])
              [] it.kind = "return" /\ ~agent.ok ->
                   /\ Fail(c, agent.err)
                   /\ calls' = Called(calls, o)

\* Line 116: asyncio.sleep(2 ** attempt) returns; the next iteration calls the
\* backend.
SleepReturns(c) ==
    /\ alive
    /\ pc[c] = "sleep"
    /\ gem' = [gem EXCEPT ![c].attempt = @ + 1]
    /\ pc' = [pc EXCEPT ![c] = "backend"]
    /\ UNCHANGED <<pipeline_running, history, next_id, alive, execution, data,
                   steps, input, sent, outcome, calls>>

\* Mutant: a failed delivery fails the run.
CompletedOnlyIfSent(exec, success) ==
    [exec EXCEPT !.telegram_sent = success,
                 !.status = IF success THEN "completed" ELSE "failed",
                 !.completed_at = Now]

\* Mutant: the completion timestamp is not set.
CompletedWithoutTimestamp(exec, success) ==
    [exec EXCEPT !.telegram_sent = success, !.status = "completed"]

\* Lines 155-166: the run is marked completed with the boolean of send_message.
Completed(exec, success) ==
    [exec EXCEPT !.telegram_sent = success, !.status = "completed",
                 !.completed_at = Now]

\* Lines 154-169, 196-201: send_message returns its boolean; the run completes,
\* the finally block runs and the record is returned.
SendReturns(c) ==
    /\ alive
    /\ pc[c] = "send"
    /\ \E o \in SendOutcomes :
         LET success == send_message(o)
         IN /\ steps' = Ended(steps, "returned", NoError)
            /\ sent' = Answered(sent, o)
            /\ Finally(c, Completed(execution[c], success))
            /\ Exit(c, Returned(c, Completed(execution[c], success)))
    /\ UNCHANGED <<next_id, alive, input, calls>>

\* Lines 190-199: the error notification returns (its result is dropped); the
\* exception is raised again (line 194) and the finally block runs.
NotifyReturns(c) ==
    /\ alive
    /\ pc[c] = "notify"
    /\ \E o \in SendOutcomes :
         LET exec == AfterNotice(execution[c], send_message(o))
         IN /\ sent' = Answered(sent, o)
            /\ Finally(c, exec)
            /\ Exit(c, FailureExit(c, exec))
    /\ UNCHANGED <<next_id, alive, steps, input, calls>>

\* The process shuts down (lifespan, main.py:228-229): scheduler.shutdown()
\* cancels the job's task at its await.  CancelledError is a BaseException:
\* "except Exception" (line 171) lets it through to the finally block, the bare
\* except of line 191 swallows it.  The server has answered the requests in flight
\* before the lifespan shutdown runs, so no manual trigger is inside the pipeline.
Shutdown ==
    /\ alive
    /\ pc["manual"] = "idle"
    /\ alive' = FALSE
    /\ LET c == "scheduled"
       IN CASE pc[c] = "idle" ->
                 UNCHANGED <<pipeline_running, history, pc, execution, data, gem,
                             outcome, sent>>
            [] pc[c] = "notify" ->
                 /\ sent' = Answered(sent, "cancelled")
                 /\ Finally(c, execution[c])
                 /\ Exit(c, FailureExit(c, execution[c]))
            [] pc[c] = "send" ->
                 /\ sent' = Answered(sent, "cancelled")
                 /\ Finally(c, execution[c])
                 /\ Exit(c, Cancelled(c))
            [] OTHER ->
                 /\ sent' = sent
                 /\ Finally(c, execution[c])
                 /\ Exit(c, Cancelled(c))
    /\ UNCHANGED <<next_id, steps, input, calls>>

MainInit ==
    /\ pipeline_running = FALSE
    /\ history = <<>>
    /\ next_id = 1
    /\ alive = TRUE
    /\ pc = [c \in Callers |-> "idle"]
    /\ execution = [c \in Callers |-> NoExecution]
    /\ data = [c \in Callers |-> <<>>]
    /\ gem = [c \in Callers |-> NoCall]
    /\ steps = <<>>
    /\ input = <<>>
    /\ sent = <<>>
    /\ outcome = Pending
    /\ calls = NoCalls

(***************************************************************************)
(* One call of call_gemini on its own, with its backend outcomes observed  *)
(***************************************************************************)
GTexts ==
    {<<"D1">>, <<Ws, "D1", Ws>>, <<Fence, Tag, Ws, "D1", Fence>>, <<Junk>>,
     <<Fence, Junk, Fence>>}

GOutcomes == {BackendRaises(e) : e \in BackendErrors}
               \cup {BackendAnswers(t) : t \in GTexts}

GIdle ==
    /\ g_max = 0
    /\ g_fmt = "json"
    /\ g_attempt = 0
    /\ g_last_error = ""
    /\ g_state = "idle"
    /\ g_text = <<>>
    /\ g_error = NoError
    /\ g_trace = <<>>
    /\ g_waited = 0

\* call_gemini(prompt, response_format, temperature, max_retries) is entered and
\* reaches the backend call of attempt 0.
GInit ==
    /\ g_max \in 1..MaxRetriesArg
    /\ g_fmt \in {"json", "text"}
    /\ g_attempt = 0
    /\ g_last_error = ""
    /\ g_state = "calling"
    /\ g_text = <<>>
    /\ g_error = NoError
    /\ g_trace = <<>>
    /\ g_waited = 0

\* generate_content returns or raises: one iteration of the loop.
GBackendReturns ==
    /\ g_state = "calling"
    /\ \E o \in GOutcomes :
         LET it == GeminiAttempt(g_attempt, g_max, g_fmt, o)
         IN /\ g_trace' = Append(g_trace, o)
            /\ CASE it.kind = "return" ->
                      /\ g_state' = "returned"
                      /\ g_text' = it.text
                      /\ UNCHANGED <<g_last_error, g_error, g_waited>>
                 [] it.kind = "retry" ->
                      /\ g_state' = "sleeping"
                      /\ g_last_error' = it.error
                      /\ g_waited' = g_waited + it.wait
                      /\ UNCHANGED <<g_text, g_error>>
                 [] it.kind = "exhausted" ->
                      /\ g_state' = "raised"
                      /\ g_last_error' = it.error
                      /\ g_error' = GeminiFailed(g_max, it.error)
                      /\ g_waited' = g_waited + it.wait
                      /\ UNCHANGED g_text
    /\ UNCHANGED <<g_max, g_fmt, g_attempt>>

\* asyncio.sleep returns: the next attempt.
GSleepReturns ==
    /\ g_state = "sleeping"
    /\ g_state' = "calling"
    /\ g_attempt' = g_attempt + 1
    /\ UNCHANGED <<g_max, g_fmt, g_last_error, g_text, g_error, g_trace, g_waited>>

(***************************************************************************)
(* The history file on its own: terminated runs saved, the file read       *)
(***************************************************************************)
\* The record of the n-th terminated run.
TerminalExecution(n) ==
    IF n % 2 = 0
    THEN [NewExecution(n) EXCEPT !.status = "completed", !.completed_at = Now]
    ELSE [NewExecution(n) EXCEPT !.status = "failed", !.completed_at = Now,
                                 !.error_message = FetchError]

NoRead == [limit |-> 0, code |-> 0, executions |-> <<>>]

HIdle ==
    /\ h_file = <<>>
    /\ h_saved = 0
    /\ h_read = NoRead

\* A run terminates: main.py:199.
HSave ==
    /\ h_saved < HISTORY_LIMIT + ExtraSaves
    /\ h_saved' = h_saved + 1
    /\ h_file' = save_execution_history(h_file, TerminalExecution(h_saved + 1))
    /\ h_read' = NoRead

\* GET /history?limit=K answers.
HRead ==
    /\ \E limit \in 0..(MAX_LIMIT + 1) :
         LET r == get_execution_history(h_file, limit)
         IN h_read' = [limit |-> limit, code |-> r.code, executions |-> r.executions]
    /\ UNCHANGED <<h_file, h_saved>>

(***************************************************************************)
(* The JSON repair on its own: a text put through _extract_json_from_      *)
(* markdown once and twice, and through the JSON check of call_gemini      *)
(***************************************************************************)
XTokens == {Fence, Tag, Ws, Junk, Quote, "D1"}

\* The texts of at most n tokens.
Texts(n) == UNION {[1..k -> XTokens] : k \in 0..n}

NoResult == [kind |-> "none", text |-> <<>>, error |-> "", wait |-> 0]

XIdle ==
    /\ x_text = <<>>
    /\ x_pc = "idle"
    /\ x_once = <<>>
    /\ x_twice = <<>>
    /\ x_checked = NoResult

\* response.text (line 82): any text.
XInit ==
    /\ x_text \in Texts(MaxTextLen)
    /\ x_pc = "text"
    /\ x_once = <<>>
    /\ x_twice = <<>>
    /\ x_checked = NoResult

\* self._extract_json_from_markdown(text)
XExtract ==
    /\ x_pc = "text"
    /\ x_once' = extract_json_from_markdown(x_text)
    /\ x_pc' = "extracted"
    /\ UNCHANGED <<x_text, x_twice, x_checked>>

\* The result is put through _extract_json_from_markdown again.
XExtractAgain ==
    /\ x_pc = "extracted"
    /\ x_twice' = extract_json_from_markdown(x_once)
    /\ x_pc' = "extracted twice"
    /\ UNCHANGED <<x_text, x_once, x_checked>>

\* Lines 85-106: the text goes through the JSON check of call_gemini, on its
\* last attempt or on an earlier one.
XCheck ==
    /\ x_pc = "text"
    /\ \E max_retries \in 1..2 : \E attempt \in 0..(max_retries - 1) :
         x_checked' = ValidateJsonResponse(attempt, max_retries, x_text)
    /\ x_pc' = "checked"
    /\ UNCHANGED <<x_text, x_once, x_twice>>

(***************************************************************************)
(* The four agents of one run in turn, with their backend calls counted    *)
(***************************************************************************)
SIdle ==
    /\ s_max = 0
    /\ s_stage = 0
    /\ s_attempt = 0
    /\ s_pc = "idle"
    /\ s_made = <<>>
    /\ s_kinds = {}

\* main.py:90: analyze_news is called and call_gemini reaches the backend call
\* of attempt 0; max_retries is config.MAX_RETRIES (gemini_service.py:48-49,
\* 3 as shipped).
SInit ==
    /\ s_max \in 1..MaxRetriesArg
    /\ s_stage = 1
    /\ s_attempt = 0
    /\ s_pc = "backend"
    /\ s_made = <<0>>
    /\ s_kinds = {}

\* How a backend outcome failed, if it does: the call raised, or it answered a
\* text that is not JSON even after the extraction.
FailureKind(o) == IF o.ok THEN "unparseable" ELSE "transport"

\* generate_content returns or raises inside the agent in progress: the loop
\* iteration of call_gemini, the agent's parse and validation, and on success
\* the call of the next agent (main.py:90, 107, 125, 140) up to its backend call.
SBackendReturns ==
    /\ s_pc = "backend"
    /\ \E o \in BackendOutcomes(s_stage) :
         LET it == GeminiAttempt(s_attempt, s_max, "json", o)
             agent == AgentResult(s_stage, it.text)
             made == [s_made EXCEPT ![Len(s_made)] = @ + 1]
         IN CASE it.kind = "retry" ->
                   /\ s_pc' = "sleep"
                   /\ s_made' = made
                   /\ s_kinds' = s_kinds \cup {FailureKind(o)}
                   /\ UNCHANGED <<s_stage, s_attempt>>
              [] it.kind = "exhausted" ->
                   /\ s_pc' = "failed"
                   /\ s_made' = made
                   /\ s_kinds' = s_kinds \cup {FailureKind(o)}
                   /\ UNCHANGED <<s_stage, s_attempt>>
              [] it.kind = "return" /\ ~agent.ok ->
                   /\ s_pc' = "failed"
                   /\ s_made' = made
                   /\ UNCHANGED <<s_stage, s_attempt, s_kinds>>
              [] it.kind = "return" /\ agent.ok /\ s_stage = 4 ->
                   /\ s_pc' = "done"
                   /\ s_made' = made
                   /\ UNCHANGED <<s_stage, s_attempt, s_kinds>>
              [] it.kind = "return" /\ agent.ok /\ s_stage < 4 ->
                   /\ s_stage' = s_stage + 1
                   /\ s_attempt' = 0
                   /\ s_made' = Append(made, 0)
                   /\ s_kinds' = {}
                   /\ UNCHANGED s_pc
    /\ UNCHANGED s_max

\* Line 116: asyncio.sleep returns; the next iteration calls the backend.
SSleepReturns ==
    /\ s_pc = "sleep"
    /\ s_pc' = "backend"
    /\ s_attempt' = s_attempt + 1
    /\ UNCHANGED <<s_max, s_stage, s_made, s_kinds>>

(***************************************************************************)
(* Specifications                                                          *)
(***************************************************************************)
Init == MainInit /\ GIdle /\ HIdle /\ XIdle /\ SIdle

Next ==
    \/ \E c \in Callers : Invoke(c) /\ UNCHANGED <<gvars, hvars, xvars, svars>>
    \/ \E c \in Callers : FetchReturns(c) /\ UNCHANGED <<gvars, hvars, xvars, svars>>
    \/ \E c \in Callers : BackendReturns(c) /\ UNCHANGED <<gvars, hvars, xvars, svars>>
    \/ \E c \in Callers : SleepReturns(c) /\ UNCHANGED <<gvars, hvars, xvars, svars>>
    \/ \E c \in Callers : SendReturns(c) /\ UNCHANGED <<gvars, hvars, xvars, svars>>
    \/ \E c \in Callers : NotifyReturns(c) /\ UNCHANGED <<gvars, hvars, xvars, svars>>
    \/ Shutdown /\ UNCHANGED <<gvars, hvars, xvars, svars>>

Spec == Init /\ [][Next]_allvars

\* An await of invocation c ends: the external call (fetch, backend, delivery)
\* returns or raises, or the backoff timer fires.
AwaitEnds(c) ==
    \/ FetchReturns(c) /\ UNCHANGED <<gvars, hvars, xvars, svars>>
    \/ BackendReturns(c) /\ UNCHANGED <<gvars, hvars, xvars, svars>>
    \/ SleepReturns(c) /\ UNCHANGED <<gvars, hvars, xvars, svars>>
    \/ SendReturns(c) /\ UNCHANGED <<gvars, hvars, xvars, svars>>
    \/ NotifyReturns(c) /\ UNCHANGED <<gvars, hvars, xvars, svars>>

\* The runs in which every external call eventually returns or fails and the
\* event loop resumes the coroutine whose await has ended.  The httpx calls carry
\* a timeout (telegram_service.py:49); generate_content, run in an executor
\* (gemini_service.py:72-80), carries none, so for it this is a hypothesis.
LiveNext ==
    \/ \E c \in Callers : /\ Invoke(c)
                           /\ next_id' <= MaxLiveRuns + 1
                           /\ UNCHANGED <<gvars, hvars, xvars, svars>>
    \/ \E c \in Callers : AwaitEnds(c)
    \/ Shutdown /\ UNCHANGED <<gvars, hvars, xvars, svars>>

SpecLive ==
    Init /\ [][LiveNext]_allvars /\ \A c \in Callers : WF_allvars(AwaitEnds(c))

GeminiInit == MainInit /\ GInit /\ HIdle /\ XIdle /\ SIdle

GeminiNext ==
    \/ GBackendReturns /\ UNCHANGED <<vars, hvars, xvars, svars>>
    \/ GSleepReturns /\ UNCHANGED <<vars, hvars, xvars, svars>>

SpecGemini == GeminiInit /\ [][GeminiNext]_allvars

HistoryInit == MainInit /\ GIdle /\ HIdle /\ XIdle /\ SIdle

HistoryNext ==
    \/ HSave /\ UNCHANGED <<vars, gvars, xvars, svars>>
    \/ HRead /\ UNCHANGED <<vars, gvars, xvars, svars>>

SpecHistory == HistoryInit /\ [][HistoryNext]_allvars

ExtractInit == MainInit /\ GIdle /\ HIdle /\ XInit /\ SIdle

ExtractNext ==
    \/ XExtract /\ UNCHANGED <<vars, gvars, hvars, svars>>
    \/ XExtractAgain /\ UNCHANGED <<vars, gvars, hvars, svars>>
    \/ XCheck /\ UNCHANGED <<vars, gvars, hvars, svars>>

SpecExtract == ExtractInit /\ [][ExtractNext]_allvars

StagesInit == MainInit /\ GIdle /\ HIdle /\ XIdle /\ SInit

StagesNext ==
    \/ SBackendReturns /\ UNCHANGED <<vars, gvars, hvars, xvars>>
    \/ SSleepReturns /\ UNCHANGED <<vars, gvars, hvars, xvars>>

SpecStages == StagesInit /\ [][StagesNext]_allvars

(***************************************************************************)
(* Properties                                                              *)
(***************************************************************************)
AllIdle == \A c \in Callers : pc[c] = "idle"
Running == {c \in Callers : execution[c].status = "running"}
Occurrences(id) ==
    Cardinality({i \in 1..Len(history) : history[i].execution_id = id})
Live(id) == \E c \in Callers : execution[c].execution_id = id
LastRecord == history[Len(history)]
\* A step of the last accepted run raised.
StepFailed == steps # <<>> /\ steps[Len(steps)].state = "raised"
\* The record of the last accepted run: the local one, or the persisted one.
RunRecord ==
    IF \E c \in Callers : pc[c] # "idle"
    THEN execution[CHOOSE c \in Callers : pc[c] # "idle"]
    ELSE LastRecord

\* C1: while the flag is set, an invocation by an idle caller ends at once with
\* the busy error; it allocates no execution, appends nothing to the history and
\* leaves the flag, the running invocation and its record as they were.
C1_SingleFlightRejection ==
    [][pipeline_running =>
         /\ next_id' = next_id
         /\ \A c \in Callers :
              pc[c] = "idle" =>
                /\ pc'[c] = "idle" /\ execution'[c] = NoExecution
                /\ (outcome' # outcome /\ outcome'.caller = c) =>
                     /\ outcome' = Raised(c, BusyError)
                     /\ UNCHANGED <<pipeline_running, history, pc, execution,
                                    data, gem>>]_allvars

C1_Witness ==
    /\ outcome = Raised("manual", BusyError)
    /\ pipeline_running
    /\ execution["scheduled"].status = "running"
    /\ pc["scheduled"] = "backend"

\* C2: at every moment at most one invocation holds a PipelineExecution with
\* status running, and at most one invocation is inside the pipeline.
C2_MutualExclusion ==
    /\ Cardinality(Running) <= 1
    /\ Cardinality({c \in Callers : pc[c] # "idle"}) <= 1

C2_Witness ==
    /\ pc["manual"] = "sleep"
    /\ execution["manual"].status = "running"
    /\ outcome = Raised("scheduled", BusyError)

C4_StrictStepOrder ==
    /\ Len(steps) <= Len(StepOrder)
    /\ \A i \in 1..Len(steps) : steps[i].step = StepOrder[i]
    /\ \A i \in 1..(Len(steps) - 1) : steps[i].state = "returned"
    /\ \A c \in Callers :
         pc[c] \in {"backend", "sleep", "send"} =>
           /\ Len(data[c]) = Len(steps) - 1
           /\ input = <<data[c][Len(data[c])]>>
           /\ \A k \in 2..Len(data[c]) : Validates(k - 1, data[c][k])

C4_Witness ==
    /\ pc["manual"] = "send"
    /\ Len(steps) = 6
    /\ Len(data["manual"]) = 5

\* C5: once the fetch or an agent has raised, it stays the last step started (it
\* is one of the first five), and the run's record has status failed, the raised
\* error as its error message, and a completion timestamp.
C5_FailStop ==
    \A i \in 1..Len(steps) :
      steps[i].state = "raised" =>
        /\ i = Len(steps)
        /\ i <= 5
        /\ RunRecord.status = "failed"
        /\ RunRecord.error_message = steps[i].error
        /\ RunRecord.error_message # NoError
        /\ RunRecord.completed_at = Now

C5_Witness ==
    /\ AllIdle
    /\ Len(steps) = 4
    /\ steps[4].state = "raised"
    /\ LastRecord.status = "failed"

\* C6 as stated: when a step of an accepted run has failed and the invocation has
\* ended, the caller got the failed record as the return value.
C6_FailureIsReturned ==
    (AllIdle /\ StepFailed /\ outcome.kind # "none") =>
      /\ outcome.kind = "returned"
      /\ outcome.execution.status = "failed"

\* C6 amended: when a step of an accepted run has failed and the invocation has
\* ended, the step's error was raised to the caller and the failed record is in
\* the history; a record that is returned has status completed.
C6_FailureIsRaised ==
    /\ (AllIdle /\ StepFailed /\ outcome.kind # "none") =>
         /\ outcome = Raised(outcome.caller, steps[Len(steps)].error)
         /\ LastRecord.status = "failed"
         /\ LastRecord.error_message = outcome.error
    /\ outcome.kind = "returned" => outcome.execution.status = "completed"

C6_Witness ==
    /\ AllIdle
    /\ StepFailed
    /\ outcome.kind = "raised"
    /\ outcome.error = GeminiFailed(MAX_RETRIES, "timeout")

\* C7: when the error notification ends (true, false, or cancelled), the run
\* leaves the pipeline with the record as it was marked at the failure: that
\* record is appended to the history, the flag is cleared and the original error
\* is the one raised.
C7_FailureNoticeIsolation ==
    [][\A c \in Callers :
         (pc[c] = "notify" /\ pc'[c] # "notify") =>
           /\ pc'[c] = "idle"
           /\ execution[c].status = "failed"
           /\ execution[c].error_message = steps[Len(steps)].error
           /\ execution[c].completed_at = Now
           /\ history' = Append(history, execution[c])
           /\ ~pipeline_running'
           /\ outcome' = Raised(c, execution[c].error_message)]_allvars

C7_Witness ==
    /\ AllIdle
    /\ StepFailed
    /\ sent[Len(sent)].message.kind = "error"
    /\ sent[Len(sent)].result \in {"non-200", "exception", "no credentials", "cancelled"}
    /\ LastRecord.status = "failed"
    /\ ~pipeline_running

\* C8: when the result message was handed to Telegram and send_message returned,
\* the run's record is completed with no error message, and telegram_sent is true
\* exactly when the request got a 200.
C8_DeliveryFailureIsSoft ==
    (AllIdle /\ Len(steps) = 6 /\ steps[6].state = "returned") =>
      /\ sent[Len(sent)].message.kind = "top 5"
      /\ LastRecord.status = "completed"
      /\ LastRecord.error_message = NoError
      /\ LastRecord.completed_at = Now
      /\ LastRecord.telegram_sent = (sent[Len(sent)].result = "200")
      /\ outcome.kind = "returned" /\ outcome.execution = LastRecord

C8_Witness ==
    /\ AllIdle
    /\ Len(steps) = 6
    /\ steps[6].state = "returned"
    /\ sent[Len(sent)].result = "exception"
    /\ LastRecord.status = "completed"
    /\ ~LastRecord.telegram_sent

FailsThenAnswers(trace) ==
    /\ trace # <<>>
    /\ trace[Len(trace)].ok
    /\ \A i \in 1..(Len(trace) - 1) : ~trace[i].ok

\* 2^0 + ... + 2^(k-1)
BackoffSum(k) == 2 ^ k - 1

\* C10 as stated: k failed backend calls followed by a successful one make
\* call_gemini return that call's text after those k + 1 calls and
\* 2^0 + ... + 2^(k-1) seconds of sleep.
C10_RetrySuccessReturnsText ==
    FailsThenAnswers(g_trace) =>
      /\ g_state = "returned"
      /\ g_text = g_trace[Len(g_trace)].text
      /\ g_waited = BackoffSum(Len(g_trace) - 1)

\* C10 amended: after k failed backend calls and a successful one, call_gemini
\* returns after those k + 1 calls and 2^0 + ... + 2^(k-1) seconds of sleep the
\* text as received when it is valid JSON or JSON is not expected, and the
\* extracted text when that is valid JSON or the attempt is the last one;
\* otherwise it does not return and goes on to another attempt.
C10_RetrySuccessAmended ==
    FailsThenAnswers(g_trace) =>
      LET k == Len(g_trace) - 1
          t == g_trace[Len(g_trace)].text
          x == extract_json_from_markdown(t)
      IN /\ k + 1 <= g_max
         /\ IF g_fmt = "text" \/ IsValidJson(t)
            THEN g_state = "returned" /\ g_text = t /\ g_waited = BackoffSum(k)
            ELSE IF IsValidJson(x) \/ k + 1 = g_max
                 THEN g_state = "returned" /\ g_text = x /\ g_waited = BackoffSum(k)
                 ELSE /\ g_state \in {"sleeping", "calling"}
                      /\ g_waited = BackoffSum(k + 1)

C10_Witness ==
    /\ g_max = 3
    /\ g_fmt = "json"
    /\ Len(g_trace) = 3
    /\ FailsThenAnswers(g_trace)
    /\ g_state = "returned"
    /\ g_text = <<"D1">>
    /\ g_waited = 3

\* The backend raised on every attempt of the trace.
AllFail(trace) == \A i \in 1..Len(trace) : ~trace[i].ok

\* C11: while every backend call has failed, call_gemini has not returned; it has
\* slept 2^0 + ... + 2^(k-1) seconds after k < max_retries failed calls and goes
\* on to another call; after exactly max_retries failed calls it has slept
\* 2^0 + ... + 2^(max_retries-2) seconds (none after the last call) and raises
\* the final exception, which carries max_retries and the error of the last call.
C11_RetryExhaustion ==
    AllFail(g_trace) =>
      LET k == Len(g_trace)
      IN /\ k <= g_max
         /\ g_state # "returned"
         /\ g_state = "raised" <=> k = g_max
         /\ k < g_max =>
              /\ g_state = "sleeping" => g_attempt = k - 1 /\ g_waited = BackoffSum(k)
              /\ g_state = "calling" => g_attempt = k /\ g_waited = BackoffSum(k)
              /\ g_error = NoError
         /\ k = g_max =>
              /\ g_waited = BackoffSum(g_max - 1)
              /\ g_last_error = g_trace[k].err
              /\ g_error = GeminiFailed(g_max, g_trace[k].err)
              /\ g_error.detail \in BackendErrors

C11_Witness ==
    /\ g_max = 3
    /\ g_state = "raised"
    /\ Len(g_trace) = 3
    /\ AllFail(g_trace)
    /\ g_trace[1].err = "timeout"
    /\ g_trace[3].err = "quota"
    /\ g_waited = 3
    /\ g_error = GeminiFailed(3, "quota")

\* C12 as stated: every answer of the backend ends the call: it is the last
\* backend call of call_gemini, and call_gemini returns its text as received.
C12_AnswerReturnedUnchanged ==
    \A i \in 1..Len(g_trace) :
      g_trace[i].ok =>
        /\ i = Len(g_trace)
        /\ g_state = "returned"
        /\ g_text = g_trace[i].text

\* C12 amended: an answer of the backend ends the call with the text as received
\* when JSON is not expected or the text is valid JSON; when JSON is expected and
\* the text is not valid JSON, the call ends with the extracted text if that is
\* valid JSON or the attempt is the last one, and otherwise the answer counts as
\* a failed attempt (the parse error becomes last_error) and after the backoff
\* the backend is called again.
C12_AnswerCheckedWhenJsonExpected ==
    \A i \in 1..Len(g_trace) :
      g_trace[i].ok =>
        LET t == g_trace[i].text
            x == extract_json_from_markdown(t)
        IN IF g_fmt = "text" \/ IsValidJson(t)
           THEN i = Len(g_trace) /\ g_state = "returned" /\ g_text = t
           ELSE IF IsValidJson(x) \/ i = g_max
                THEN i = Len(g_trace) /\ g_state = "returned" /\ g_text = x
                ELSE /\ i < g_max
                     /\ i = Len(g_trace) =>
                          /\ g_state \in {"sleeping", "calling"}
                          /\ g_last_error = ParseRetryError
                          /\ g_waited = BackoffSum(i)

C12_Witness ==
    /\ g_fmt = "json"
    /\ g_max = 3
    /\ Len(g_trace) = 2
    /\ g_trace[1] = BackendAnswers(<<Junk>>)
    /\ g_trace[2] = BackendAnswers(<<Fence, Tag, Ws, "D1", Fence>>)
    /\ g_state = "returned"
    /\ g_text = <<"D1">>
    /\ g_waited = 1

\* The backend answered, and the answer is not JSON even after the extraction.
Unparseable(o) ==
    /\ o.ok
    /\ ~IsValidJson(o.text)
    /\ ~IsValidJson(extract_json_from_markdown(o.text))

\* The agent whose step was started last (0 for the fetch).
LastStage == Len(steps) - 1

\* The last step started has raised the error e.
StepRaised(e) == StepFailed /\ steps[Len(steps)].error = e

\* C13 as stated: once a stage's answer is unparseable after the extraction, the
\* stage has failed as invalid JSON and the run's record is failed (so the model
\* is not called again for it).
C13_NoAskAgain ==
    Unparseable(calls.last) =>
      /\ StepRaised(InvalidJsonError(LastStage))
      /\ RunRecord.status = "failed"

\* C13 amended: an unparseable answer to one of the first MAX_RETRIES - 1 calls
\* of a stage does not fail the stage: the run stays running and the stage's
\* call_gemini backs off and calls the model again; an unparseable answer to call
\* number MAX_RETRIES fails the stage as invalid JSON and the run's record is
\* failed with that error.  No stage makes more than MAX_RETRIES calls and no
\* step is started twice in a run.
C13_AskAgainBeforeLastAttempt ==
    /\ calls.made <= MAX_RETRIES
    /\ \A i, j \in 1..Len(steps) : i < j => steps[i].step # steps[j].step
    /\ Unparseable(calls.last) =>
         IF calls.made < MAX_RETRIES
         THEN /\ ~StepFailed
              /\ \A c \in Callers :
                   pc[c] # "idle" =>
                     /\ pc[c] \in {"sleep", "backend"}
                     /\ pc[c] = "sleep" => gem[c].attempt = calls.made - 1
                     /\ pc[c] = "backend" => gem[c].attempt = calls.made
                     /\ gem[c].stage = LastStage
                     /\ gem[c].last_error = ParseRetryError
                     /\ execution[c].status = "running"
         ELSE /\ StepRaised(InvalidJsonError(LastStage))
              /\ RunRecord.status = "failed"
              /\ RunRecord.error_message = InvalidJsonError(LastStage)

C13_Witness ==
    /\ AllIdle
    /\ alive
    /\ Unparseable(calls.last)
    /\ calls.made = MAX_RETRIES
    /\ StepRaised(InvalidJsonError(2))
    /\ LastRecord.status = "failed"

\* The fenced blocks of a text: its fences pair up from the left.
Blocks(t) == Cardinality(FencePos(t)) \div 2

\* r is s without the whitespace at its two ends.
IsTrimOf(r, s) ==
    \E a, b \in 0..Len(s) :
      /\ a + Len(r) + b = Len(s)
      /\ \A k \in 1..a : s[k] = Ws
      /\ \A k \in 1..b : s[Len(s) + 1 - k] = Ws
      /\ r = SubSeq(s, a + 1, Len(s) - b)
      /\ r = <<>> \/ (r[1] # Ws /\ r[Len(r)] # Ws)

\* _extract_json_from_markdown has been applied to x_text.
Extracted == x_pc \in {"extracted", "extracted twice"}

\* C14: for a text that is not valid JSON, _extract_json_from_markdown returns,
\* when the text has exactly one fenced block, what stands between the block's
\* two fences (after the tag json, if the block has it) without the whitespace
\* at its ends, and when the text has no fenced block, the text without the
\* whitespace at its ends.
C14_ExtractReturnsInterior ==
    (Extracted /\ ~IsValidJson(x_text)) =>
      /\ Blocks(x_text) = 1 =>
           \E i, j \in FencePos(x_text) :
             /\ i < j
             /\ \A k \in FencePos(x_text) : k = i \/ k >= j
             /\ IsTrimOf(x_once,
                         SubSeq(x_text, IF x_text[i + 1] = Tag THEN i + 2 ELSE i + 1,
                                j - 1))
      /\ Blocks(x_text) = 0 => IsTrimOf(x_once, x_text)

C14_Witness ==
    /\ x_pc = "extracted"
    /\ x_text = <<Fence, Tag, Ws, "D1", Fence>>
    /\ ~IsValidJson(x_text)
    /\ x_once = <<"D1">>

C16_ExtractIdempotent ==
    x_pc = "extracted twice" => x_twice = x_once

C16_Witness ==
    /\ x_pc = "extracted twice"
    /\ x_text = <<Fence, Tag, Junk, Fence, Fence, Fence>>
    /\ Blocks(x_text) = 2
    /\ x_once = <<Junk>>
    /\ x_twice = <<Junk>>

\* The text call_gemini returns for a backend answer that it returns for.
Answer(o) ==
    IF IsValidJson(o.text) THEN o.text ELSE extract_json_from_markdown(o.text)

\* The scores and the ranks of a stage's record.
ScoresOf(stage, v) ==
    CASE stage = 1 ->
           {v.articles[i].technical_relevance_score : i \in 1..Len(v.articles)}
      [] stage = 2 ->
           {v.ideas[i].impact_score : i \in 1..Len(v.ideas)}
             \cup {v.ideas[i].technical_difficulty : i \in 1..Len(v.ideas)}
      [] stage = 3 ->
           {v.top_5_ideas[i].impact_score : i \in 1..Len(v.top_5_ideas)}
      [] stage = 4 -> {}

RanksOf(stage, v) ==
    CASE stage = 3 -> {v.top_5_ideas[i].rank : i \in 1..Len(v.top_5_ideas)}
      [] stage = 4 -> {v.top_5_explained[i].rank : i \in 1..Len(v.top_5_explained)}
      [] OTHER -> {}

OutOfRange(stage, v) ==
    \/ \E x \in ScoresOf(stage, v) : x < 0 \/ x > 10
    \/ \E x \in RanksOf(stage, v) : x < 1 \/ x > 5

\* The last answer of the backend is a JSON object for the stage in progress.
AnsweredObject ==
    /\ calls.last.ok
    /\ IsValidJson(Answer(calls.last))
    /\ ~IsJsonString(Strip(Answer(calls.last)))

\* C17: when a stage's answer parses to a record with a score outside 0..10 or a
\* rank outside 1..5, the stage has raised the validation error, it has returned
\* no record (the run holds the outputs of the stages before it only), no later
\* step was started and the run's record is failed with that error; and every
\* record a stage has returned has its scores in 0..10 and its ranks in 1..5.
C17_RangeValidation ==
    /\ (AnsweredObject /\ OutOfRange(LastStage, json_loads(Answer(calls.last)))) =>
         /\ StepRaised(ValidationError(LastStage))
         /\ RunRecord.status = "failed"
         /\ RunRecord.error_message = ValidationError(LastStage)
         /\ \A c \in Callers :
              pc[c] # "idle" => pc[c] = "notify" /\ Len(data[c]) = LastStage
    /\ \A c \in Callers : \A k \in 2..Len(data[c]) :
         ~OutOfRange(k - 1, data[c][k])

C17_Witness ==
    /\ AllIdle
    /\ calls.last = BackendAnswers(<<"D3score">>)
    /\ OutOfRange(3, json_loads(Answer(calls.last)))
    /\ StepRaised(ValidationError(3))
    /\ Len(steps) = 4
    /\ LastRecord.status = "failed"
    /\ LastRecord.error_message = ValidationError(3)

\* The categories the prompt of agent 1 and the description of Article.category
\* name.
Categories == {"breakthrough", "trend", "update", "application"}

\* C18: every article of a stage-1 output that the run holds (so that stage 2 is
\* given it) has one of the four named categories, an output with another
\* category having been rejected.
C18_CategoryEnumerated ==
    \A c \in Callers :
      Len(data[c]) >= 2 =>
        \A i \in 1..Len(data[c][2].articles) :
          data[c][2].articles[i].category \in Categories

\* C19: every stage-3 output that the run holds (so that stage 4 is given it)
\* has exactly 5 entries, an output with another count having been rejected
\* before stage 4 and the delivery start.
C19_TopFiveCount ==
    \A c \in Callers :
      Len(data[c]) >= 4 => Len(data[c][4].top_5_ideas) = 5

\* C20: every message of the top 5 that format_telegram_message builds from a
\* stage-4 output of 5 entries lists the entries in the order of the ranks 1, 2,
\* 3, 4, 5.
C20_FormatterGetsRankOrder ==
    \A i \in 1..Len(sent) :
      (sent[i].message.kind = "top 5" /\ Len(sent[i].message.ranks) = 5) =>
        sent[i].message.ranks = <<1, 2, 3, 4, 5>>

Terminal == {"completed", "failed"}

\* The record of caller c's run after a step: the local one, or the one the
\* finally block persisted when the step ended the run.
RecordAfter(c) ==
    IF pc'[c] = "idle" THEN history'[Len(history')] ELSE execution'[c]

\* C21 as stated: a record is created running, and the only change a record ever
\* undergoes is the transition from running to completed or failed.
C21_MutatedOnlyAtTerminalTransition ==
    [][\A c \in Callers :
         /\ (pc[c] = "idle" /\ pc'[c] # "idle") => execution'[c].status = "running"
         /\ (pc[c] # "idle" /\ execution[c].status = "running") =>
              \/ RecordAfter(c) = execution[c]
              \/ RecordAfter(c).status \in Terminal
         /\ (pc[c] # "idle" /\ execution[c].status \in Terminal) =>
              RecordAfter(c) = execution[c]]_allvars

\* C21 amended: a record is created running with both counters 0.  While it is
\* running, a step changes nothing of it, or sets articles_fetched (the fetch
\* returns), or sets ideas_extracted (stage 2 returns), or makes the terminal
\* transition: status becomes completed or failed and completed_at is stamped,
\* with the counters and the id as they were.  After the terminal transition
\* nothing of the record changes.
C21_LifecycleWithCounters ==
    [][\A c \in Callers :
         /\ (pc[c] = "idle" /\ pc'[c] # "idle") =>
              /\ execution'[c].status = "running"
              /\ execution'[c].articles_fetched = 0
              /\ execution'[c].ideas_extracted = 0
         /\ (pc[c] # "idle" /\ execution[c].status = "running") =>
              LET old == execution[c]
                  new == RecordAfter(c)
              IN \/ new = old
                 \/ /\ pc[c] = "fetch"
                    /\ new = [old EXCEPT !.articles_fetched = new.articles_fetched]
                 \/ /\ pc[c] = "backend" /\ gem[c].stage = 2
                    /\ new = [old EXCEPT !.ideas_extracted = new.ideas_extracted]
                 \/ /\ new.status \in Terminal
                    /\ new.completed_at = Now
                    /\ new.execution_id = old.execution_id
                    /\ new.articles_fetched = old.articles_fetched
                    /\ new.ideas_extracted = old.ideas_extracted
         /\ (pc[c] # "idle" /\ execution[c].status \in Terminal) =>
              RecordAfter(c) = execution[c]]_allvars

C21_Witness ==
    /\ AllIdle
    /\ Len(steps) = 4
    /\ StepFailed
    /\ LastRecord.status = "failed"
    /\ LastRecord.articles_fetched = 3
    /\ LastRecord.ideas_extracted = 2

\* The run records that exist: the local ones of the runs in progress, the
\* persisted ones, and the one returned to the last caller.
RecordsHeld ==
    {execution[c] : c \in {d \in Callers : pc[d] # "idle"}}
      \cup {history[i] : i \in 1..Len(history)}
      \cup (IF outcome.kind = "returned" THEN {outcome.execution} ELSE {})

\* C22: every run record, local, persisted or returned, has an error message
\* exactly when its status is failed.
C22_ErrorMessageIffFailed ==
    \A r \in RecordsHeld :
      /\ r.status \in {"running", "completed", "failed"}
      /\ (r.error_message # NoError) <=> (r.status = "failed")

C22_Witness ==
    /\ pc["manual"] = "notify"
    /\ execution["manual"].status = "failed"
    /\ execution["manual"].error_message = InvalidJsonError(1)
    /\ Len(history) = 1
    /\ history[1].status = "completed"
    /\ history[1].error_message = NoError

\* The counters the outputs held by a run give: the number of articles the fetch
\* returned, and the number of ideas of the stage-2 output, 0 while the step
\* has not returned.
FetchedCount(outputs) == IF Len(outputs) >= 1 THEN Len(outputs[1]) ELSE 0
IdeasCount(outputs) == IF Len(outputs) >= 3 THEN Len(outputs[3].ideas) ELSE 0

\* C23: after every step of a run, also the one that ends it (completed, failed
\* or cancelled), the run's record, local or persisted, has articles_fetched
\* equal to the number of articles the fetch returned (0 if it has not returned)
\* and ideas_extracted equal to the number of ideas of the validated stage-2
\* output (0 if stage 2 has not returned).
C23_PartialProgressCounters ==
    [][\A c \in Callers :
         (pc[c] # "idle" \/ pc'[c] # "idle") =>
           LET outputs == IF pc'[c] = "idle" THEN data[c] ELSE data'[c]
           IN /\ RecordAfter(c).articles_fetched = FetchedCount(outputs)
              /\ RecordAfter(c).ideas_extracted = IdeasCount(outputs)]_allvars

C23_Witness ==
    /\ AllIdle
    /\ Len(steps) = 5
    /\ StepRaised(GeminiFailed(MAX_RETRIES, "timeout"))
    /\ LastRecord.status = "failed"
    /\ LastRecord.articles_fetched = 3
    /\ LastRecord.ideas_extracted = 2
    /\ Len(history) = 2
    /\ history[1].status = "failed"
    /\ history[1].articles_fetched = 0

\* C24: every record of the persisted history has the status completed or
\* failed, and a completion timestamp.
C24_OnlyTerminalRecordsPersisted ==
    \A i \in 1..Len(history) :
      /\ history[i].status \in Terminal
      /\ history[i].completed_at = Now

RECURSIVE Sum(_)
Sum(q) == IF q = <<>> THEN 0 ELSE Head(q) + Sum(Tail(q))

\* C26: an agent's call_gemini with max_retries >= 1 calls the backend at least
\* once and at most max_retries times, whether the calls raise or answer
\* unparseable text; the four agents of a run make at most 4 * max_retries
\* backend calls together.
C26_BackendCallsBounded ==
    /\ Len(s_made) <= 4
    /\ \A i \in 1..Len(s_made) :
         /\ s_made[i] <= s_max
         /\ (i < Len(s_made) \/ s_pc \in {"sleep", "done", "failed"}) =>
              s_made[i] >= 1
    /\ s_pc = "sleep" => s_made[Len(s_made)] < s_max
    /\ Sum(s_made) <= 4 * s_max

\* A run whose four agents each made max_retries calls, the last of them after a
\* raised call and an unparseable answer.
C26_Witness ==
    /\ s_pc = "done"
    /\ s_max = MAX_RETRIES
    /\ Sum(s_made) = 4 * s_max
    /\ s_kinds = {"transport", "unparseable"}

\* The last accepted run has ended.
RunEnded == AllIdle /\ steps # <<>>

\* C27: every accepted run hands exactly one message to the delivery channel:
\* the top-5 message when the fetch and the four agents returned, the failure
\* notice when a step raised; no top-5 message follows a step that raised and
\* no failure notice belongs to a run that ends completed.
C27_ExactlyOneDelivery ==
    /\ Len(sent) <= 1
    /\ RunEnded => Len(sent) = 1
    /\ \A i \in 1..Len(sent) :
         /\ sent[i].message.kind = "top 5" =>
              /\ ~StepFailed
              /\ Len(steps) = Len(StepOrder)
         /\ sent[i].message.kind = "error" => StepFailed
    /\ (RunEnded /\ LastRecord.status = "completed") =>
         \A i \in 1..Len(sent) : sent[i].message.kind = "top 5"

\* The run with this id is in progress.
InProgress(id) == \E c \in Callers : pc[c] # "idle" /\ execution[c].execution_id = id

\* The run with this id has ended with a terminal record and the flag is clear.
Resolved(id) ==
    /\ ~InProgress(id)
    /\ ~pipeline_running
    /\ \E i \in 1..Len(history) :
         history[i].execution_id = id /\ history[i].status \in Terminal

\* C25: when every external call returns or fails, every accepted run reaches
\* the status completed or failed and clears the flag, unless the process shuts
\* down first; and a trigger is rejected as busy only while the flag is set, so
\* a trigger that comes after the run has resolved is accepted.
C25_AcceptedRunResolves ==
    /\ \A id \in 1..MaxLiveRuns : InProgress(id) ~> (Resolved(id) \/ ~alive)
    /\ [][(outcome' # outcome /\ outcome'.error = BusyError) =>
            pipeline_running]_allvars

\* A run failed after its agent used up its attempts and the flag was cleared,
\* with the process still serving.
C25_Witness ==
    /\ alive
    /\ Resolved(1)
    /\ history[1].status = "failed"
    /\ history[1].error_message = GeminiFailed(MAX_RETRIES, "timeout")
====
